---- MODULE Spec2Model ----
(***************************************************************************)
(* A model of osmapis: the versioned primitives (Node, Way, Relation) and  *)
(* their shared history maps, the OSM document, the OSC diff, and the API  *)
(* object's changeset handling and write operations.                       *)
(*                                                                         *)
(* Objects live in a heap: prims is the sequence of constructed wrappers,  *)
(* maps the sequence of history dictionaries; a wrapper's history field is *)
(* the index of its dictionary, so two wrappers share one dictionary       *)
(* object exactly when their history fields are equal.  A dictionary is    *)
(* never changed after the statement that builds it, so maps only grows.   *)
(* Instances are hashed by identity (the Python 2 object model, under      *)
(* which the set() calls of OSC.from_diff accept wrappers).                *)
(***************************************************************************)
EXTENDS Integers, Sequences, FiniteSets, TLC

\* Python's None for the id, version and changeset attributes.
None == 0

\* Bounds of the model.
MaxObj == 3
MaxMaps == 5
MaxSize == 3
MaxCs == 5
MaxWrites == 1
MaxOpened == 3
MaxFetched == 3
MaxParsed == 3
MaxAppends == 4
MaxAttr == 2
MaxAcks == 2
MaxRetry == 2
MaxRedirects == 2
MaxCalls == 3
MaxChildren == 3

\* prims, maps, counter: the heap of wrappers, their history dictionaries and
\* the _counter of each class.  docs: the two OSM documents parent and child.
\* last: the most recent call, its arguments, the exception it raised and the
\* value it returned.
\* api: the API object, its _changeset (with the counter attribute) and its
\* auto_changeset configuration.  srv: the server, the next changeset id it
\* hands out and the changesets it has closed.
VARIABLES prims, maps, counter, docs, api, srv, last

heapvars == <<prims, maps, counter>>

Classes == {"Node", "Way", "Relation"}

Max(S) == CHOOSE x \in S : \A y \in S : y <= x

Objs(P) == 1..Len(P)

\* The values of a dictionary.
Values(h) == {h[v] : v \in DOMAIN h}

(***************************************************************************)
(* Construction of a primitive.                                            *)
(***************************************************************************)

\* OSMPrimitive.__init__: the history of a new wrapper is {} or {version: self}.
OSMPrimitive_init(o, version) == [v \in {version} \ {None} |-> o]

\* A construction in which the three classes count on one counter.
Primitive_init_one_counter(P, M, C, cls, id, version, tags, payload) ==
    LET o == Len(P) + 1
        auto == id = None
        low == CHOOSE x \in {C[c] : c \in DOMAIN C} : \A c \in DOMAIN C : x <= C[c]
        newid == IF auto THEN low - 1 ELSE id
    IN [prims |-> Append(P, [cls |-> cls, id |-> newid, version |-> version,
                             tags |-> tags, payload |-> payload,
                             visible |-> "None",
                             changeset |-> None, history |-> Len(M) + 1]),
        maps |-> Append(M, OSMPrimitive_init(o, version)),
        counter |-> IF auto THEN [C EXCEPT ![cls] = low - 1] ELSE C]

\* Node/Way/Relation.__init__: a wrapper without id takes the next negative
\* id of its class counter.  The heap after the construction.
Primitive_init(P, M, C, cls, id, version, tags, payload) ==
    LET o == Len(P) + 1
        auto == id = None
        newid == IF auto THEN C[cls] - 1 ELSE id
    IN [prims |-> Append(P, [cls |-> cls, id |-> newid, version |-> version,
                             tags |-> tags, payload |-> payload,
                             visible |-> "None",
                             changeset |-> None, history |-> Len(M) + 1]),
        maps |-> Append(M, OSMPrimitive_init(o, version)),
        counter |-> IF auto THEN [C EXCEPT ![cls] = C[cls] - 1] ELSE C]

(***************************************************************************)
(* OSMPrimitive.merge_history                                              *)
(***************************************************************************)

\* A merge in which the entries of other win on a common version key.
merged_other_wins(hs, ho) ==
    [v \in DOMAIN ho \cup DOMAIN hs |-> IF v \in DOMAIN ho THEN ho[v] ELSE hs[v]]

\* history = dict(other.history); history.update(self.history)
merged(hs, ho) ==
    [v \in DOMAIN ho \cup DOMAIN hs |-> IF v \in DOMAIN hs THEN hs[v] ELSE ho[v]]

\* The precondition checks without the one on the version numbers.
merge_error_no_version(P, self, other) ==
    \/ P[self].cls # P[other].cls
    \/ P[self].id # P[other].id

\* The precondition checks, in the order of the code.
merge_error(P, self, other) ==
    \/ P[self].cls # P[other].cls
    \/ P[self].id # P[other].id
    \/ P[self].version = None
    \/ P[other].version = None

\* A merge_history that picks the greatest version of self.history before the
\* histories are unified.
merge_history_stale_max(P, M, self, other) ==
    IF merge_error(P, self, other)
    THEN [prims |-> P, maps |-> M, exc |-> "ValueError", ret |-> 0]
    ELSE LET history == merged(M[P[self].history], M[P[other].history])
             h == Len(M) + 1
             P2 == [o \in Objs(P) |->
                      IF o \in Values(history)
                      THEN [P[o] EXCEPT !.history = h] ELSE P[o]]
             own == M[P[self].history]
         IN IF DOMAIN own = {}
            THEN [prims |-> P2, maps |-> Append(M, history),
                  exc |-> "ValueError", ret |-> 0]
            ELSE [prims |-> P2, maps |-> Append(M, history), exc |-> "",
                  ret |-> own[Max(DOMAIN own)]]

\* self.merge_history(other): the heap after the call, the exception raised
\* ("" for none) and the wrapper returned (0 when it raises).
merge_history(P, M, self, other) ==
    IF merge_error(P, self, other)
    THEN [prims |-> P, maps |-> M, exc |-> "ValueError", ret |-> 0]
    ELSE LET history == merged(M[P[self].history], M[P[other].history])
             h == Len(M) + 1
             P2 == [o \in Objs(P) |->
                      IF o \in Values(history)
                      THEN [P[o] EXCEPT !.history = h] ELSE P[o]]
             M2 == Append(M, history)
             own == M2[P2[self].history]
         IN IF DOMAIN own = {}
            THEN [prims |-> P2, maps |-> M2, exc |-> "ValueError", ret |-> 0]
            ELSE [prims |-> P2, maps |-> M2, exc |-> "",
                  ret |-> own[Max(DOMAIN own)]]

(***************************************************************************)
(* The OSM document and the OSC diff.                                      *)
(***************************************************************************)

\* OSM.__init__ without items: the three dictionaries are empty.  A document
\* is one dictionary keyed by <<class, id>>.
EmptyDoc == [k \in {} |-> 0]

\* Node/Way/Relation.__eq__: same class, id, version, tags and payload
\* (lat and lon, nds, members).
Eq(P, a, b) ==
    /\ P[a].cls = P[b].cls
    /\ P[a].id = P[b].id
    /\ P[a].version = P[b].version
    /\ P[a].tags = P[b].tags
    /\ P[a].payload = P[b].payload

\* Node/Way/Relation.__ne__
Ne(P, a, b) == ~Eq(P, a, b)

\* The dictionary of the item's class and the key in it.
Key(P, o) == <<P[o].cls, P[o].id>>

\* OSM.add: container[item.id] = item
OSM_add(P, doc, item) ==
    [k \in DOMAIN doc \cup {Key(P, item)} |->
       IF k = Key(P, item) THEN item ELSE doc[k]]

\* OSM.discard: container.pop(item.id, None)
OSM_discard(P, doc, item) ==
    [k \in DOMAIN doc \ {Key(P, item)} |-> doc[k]]

\* A containment that holds as soon as the identity of the item is stored.
OSM_contains_present(P, doc, item) == Key(P, item) \in DOMAIN doc

\* OSM.__contains__: container.get(item.id) == item
OSM_contains(P, doc, item) ==
    /\ Key(P, item) \in DOMAIN doc
    /\ Eq(P, doc[Key(P, item)], item)

\* OSM.__init__ on a set of wrappers with pairwise different identities (the
\* sets that from_diff builds): every item is added under its identity.
OSM_init(P, items) ==
    [k \in {Key(P, o) : o \in items} |-> CHOOSE o \in items : Key(P, o) = k]

\* OSC.__init__: one section (action, OSM(elements)) per argument.
OSC_init(P, sections) ==
    [i \in 1..Len(sections) |->
       [action |-> sections[i].action, doc |-> OSM_init(P, sections[i].elements)]]

\* A diff that takes every identity of both documents as modified.
from_diff_all_modified(P, parent, child) ==
    LET ids == DOMAIN child \cup DOMAIN parent
        delete == {parent[k] : k \in ids \ DOMAIN child}
        create == {child[k] : k \in ids \ DOMAIN parent}
        modify == {child[k] : k \in DOMAIN parent \cap DOMAIN child}
        sec(action, elements) ==
            IF elements = {} THEN <<>>
            ELSE <<[action |-> action, elements |-> elements]>>
    IN OSC_init(P, sec("create", create) \o sec("modify", modify)
                     \o sec("delete", delete))

\* A classification that takes the wrappers of both documents as modified.
diff_sets_both_sides(P, parent, child) ==
    [delete |-> {parent[k] : k \in DOMAIN parent \ DOMAIN child},
     create |-> {child[k] : k \in DOMAIN child \ DOMAIN parent},
     modify |-> UNION {{parent[k], child[k]} :
                         k \in {j \in DOMAIN parent \cap DOMAIN child :
                                   Ne(P, parent[j], child[j])}}]

\* The loop of from_diff over the identities of both documents: the sets
\* create, modify and delete.
diff_sets(P, parent, child) ==
    [delete |-> {parent[k] : k \in DOMAIN parent \ DOMAIN child},
     create |-> {child[k] : k \in DOMAIN child \ DOMAIN parent},
     modify |-> {child[k] : k \in {j \in DOMAIN parent \cap DOMAIN child :
                                      Ne(P, parent[j], child[j])}}]

\* The end of from_diff: the sections of the sets that are not empty, in the
\* order create, modify, delete.
diff_sections(sets) ==
    (IF sets.create = {} THEN <<>>
     ELSE <<[action |-> "create", elements |-> sets.create]>>)
    \o (IF sets.modify = {} THEN <<>>
        ELSE <<[action |-> "modify", elements |-> sets.modify]>>)
    \o (IF sets.delete = {} THEN <<>>
        ELSE <<[action |-> "delete", elements |-> sets.delete]>>)

\* OSC.from_diff
from_diff(P, parent, child) ==
    OSC_init(P, diff_sections(diff_sets(P, parent, child)))

\* The set.add calls of from_diff.  Node, Way and Relation define __eq__ and
\* no __hash__: a Python 3 interpreter leaves their instances unhashable and
\* the first add raises TypeError, a Python 2 interpreter hashes them by
\* identity (hashable is the interpreter's choice).
set_add(sets, hashable) ==
    IF ~hashable /\ sets.create \cup sets.modify \cup sets.delete # {}
    THEN "TypeError" ELSE ""

\* What a call of from_diff yields: the exception of the loop, or the OSC.
diff_returned(sets, exc, ret) ==
    [op |-> "from_diff", exc |-> exc,
     ret |-> IF exc = "" THEN ret ELSE <<>>, sets |-> sets]

(***************************************************************************)
(* The API object: changeset resolution, the auto changeset and the write  *)
(* operations.  An operation takes the state S = [api, srv, reqs] (reqs is *)
(* the list of the requests it has sent) and the outcomes t that the       *)
(* transport and the server choose, and yields [S, exc, ret]: the state    *)
(* after it, the exception it raised ("" for none) and its return value.   *)
(***************************************************************************)

\* API._changeset = None
NoChangeset == [id |-> None, counter |-> 0]

\* auto_changeset.setdefault("size", 200)
DefaultSize == 200

\* str() and int() of an integer: the decimal string is kept as a tagged value.
str(n) == <<"str", n>>
int(x) == x[2]

\* The changeset arguments of a call: None, an integer id, a Changeset wrapper
\* with an id or without one.
NoArg == [type |-> "None", id |-> None]
IntArg(id) == [type |-> "int", id |-> id]
ChangesetArg(id) == [type |-> "Changeset", id |-> id]

Raise(S, exc) == [S |-> S, exc |-> exc, ret |-> None]
Return(S, ret) == [S |-> S, exc |-> "", ret |-> ret]

\* API.request by PUT, POST or DELETE: the request is sent; the call raises
\* APIError when the transport or the server fails.
Sent(S, method, path) ==
    [S EXCEPT !.reqs = Append(@, [method |-> method, path |-> path])]

\* API.create_changeset without arguments: the server hands out the id newid.
create_changeset(S, t) ==
    LET S1 == Sent(S, "PUT", <<"changeset", "create">>)
    IN IF t.create
       THEN Return([S1 EXCEPT !.srv.next = t.newid + 1], ChangesetArg(t.newid))
       ELSE Raise(S1, "APIError")

\* The end of close_changeset: auto_changeset is enabled as before and the
\* close request is sent.
close_changeset_put(old, r, t) ==
    IF r.exc # ""
    THEN r
    ELSE IF t.close
    THEN Return([Sent([r.S EXCEPT !.api.enabled = old], "PUT",
                      <<"changeset", r.ret, "close">>)
                   EXCEPT !.srv.closed = @ \cup {int(r.ret)}], None)
    ELSE Raise(Sent([r.S EXCEPT !.api.enabled = old], "PUT",
                    <<"changeset", r.ret, "close">>), "APIError")

\* A clearing that forgets the changeset also when close_changeset raised.
changeset_cleared_always(r) ==
    IF r.exc # ""
    THEN [r EXCEPT !.S.api.changeset = NoChangeset]
    ELSE Return([r.S EXCEPT !.api.changeset = NoChangeset], "True")

\* The end of _auto_changeset_clear after close_changeset.
changeset_cleared(r) ==
    IF r.exc # ""
    THEN r
    ELSE Return([r.S EXCEPT !.api.changeset = NoChangeset], "True")

\* The end of _changeset_id: the counter of the changeset cs is incremented.
changeset_counted(S, cs) ==
    Return([S EXCEPT !.api.changeset = [cs EXCEPT !.counter = @ + 1]], str(cs.id))

\* _changeset_id after create_changeset: the new changeset starts at 0.
changeset_opened(o) ==
    IF o.exc # ""
    THEN o
    ELSE changeset_counted(o.S, [id |-> o.ret.id, counter |-> 0])

\* _changeset_id after _auto_changeset_clear.
changeset_resolved(c, t) ==
    IF c.exc # ""
    THEN c
    ELSE IF c.S.api.changeset = NoChangeset
    THEN changeset_opened(create_changeset(c.S, t))
    ELSE changeset_counted(c.S, c.S.api.changeset)

\* A resolution that counts an explicit changeset as an operation of the
\* open auto changeset.
changeset_given_counted(S, changeset) ==
    IF changeset.type = "Changeset" /\ changeset.id = None
    THEN Raise(S, "ValueError")
    ELSE IF S.api.changeset = NoChangeset
    THEN Return(S, str(changeset.id))
    ELSE Return([S EXCEPT !.api.changeset.counter = @ + 1], str(changeset.id))

\* A resolution that raises TypeError for a Changeset without id.
changeset_given_one_error(S, changeset) ==
    IF changeset.type = "Changeset" /\ changeset.id = None
    THEN Raise(S, "TypeError")
    ELSE Return(S, str(changeset.id))

\* _changeset_id with a Changeset wrapper or an integer: its id as a string,
\* ValueError for a wrapper without id.
changeset_given(S, changeset) ==
    IF changeset.type = "Changeset"
    THEN IF changeset.id # None
         THEN Return(S, str(changeset.id))
         ELSE Raise(S, "ValueError")
    ELSE Return(S, str(changeset.id))

RECURSIVE changeset_id(_, _, _)
RECURSIVE auto_changeset_clear(_, _, _)
RECURSIVE close_changeset(_, _, _)

\* API.close_changeset
close_changeset(S, changeset, t) ==
    close_changeset_put(S.api.enabled,
                        changeset_id([S EXCEPT !.api.enabled = FALSE], changeset, t), t)

\* A clearing that ignores force.
auto_changeset_clear_unforced(S, force, t) ==
    IF S.api.changeset = NoChangeset
    THEN Return(S, "False")
    ELSE IF S.api.changeset.counter >= S.api.size
    THEN changeset_cleared(close_changeset(S, ChangesetArg(S.api.changeset.id), t))
    ELSE Return(S, "None")

\* A clearing that closes the changeset only when the counter has passed size.
auto_changeset_clear_late(S, force, t) ==
    IF S.api.changeset = NoChangeset
    THEN Return(S, "False")
    ELSE IF force \/ S.api.changeset.counter > S.api.size
    THEN changeset_cleared(close_changeset(S, ChangesetArg(S.api.changeset.id), t))
    ELSE Return(S, "None")

\* API._auto_changeset_clear: False without changeset, True after closing it,
\* None otherwise.
auto_changeset_clear(S, force, t) ==
    IF S.api.changeset = NoChangeset
    THEN Return(S, "False")
    ELSE IF force \/ S.api.changeset.counter >= S.api.size
    THEN changeset_cleared(close_changeset(S, ChangesetArg(S.api.changeset.id), t))
    ELSE Return(S, "None")

\* API._changeset_id
changeset_id(S, changeset, t) ==
    IF changeset.type \in {"Changeset", "int"}
    THEN changeset_given(S, changeset)
    ELSE IF S.api.enabled
    THEN changeset_resolved(auto_changeset_clear(S, FALSE, t), t)
    ELSE Raise(S, "TypeError")

\* The outcomes of the requests of changeset resolution, and of the clearing
\* after the request of a write operation.
Before(t) == [close |-> t.close1, create |-> t.create, newid |-> t.newid]
After(t) == [close |-> t.close2, create |-> FALSE, newid |-> None]

\* A reconciliation that keeps the history of the element.
reconciled_keep_history(P, M, element, data, csid) ==
    [prims |-> [P EXCEPT ![element].version = int(data),
                         ![element].changeset = int(csid)],
     maps |-> M]

\* The end of create_element and update_element: version and changeset of the
\* element are set and its history becomes {element.version: element}.
reconciled(P, M, element, data, csid) ==
    [prims |-> [P EXCEPT ![element].version = int(data),
                         ![element].changeset = int(csid),
                         ![element].history = Len(M) + 1],
     maps |-> Append(M, [v \in {int(data)} |-> element])]

\* A write operation that raised: the element is as before.
write_failed(P, M, r, csid) ==
    [prims |-> P, maps |-> M, S |-> r.S, exc |-> r.exc, ret |-> None, csid |-> csid]

\* The end of a write operation: the element is reconciled and returned.
write_returned(h, S, element, csid) ==
    [prims |-> h.prims, maps |-> h.maps, S |-> S, exc |-> "", ret |-> element,
     csid |-> csid]

\* A write operation after _auto_changeset_clear.
write_cleared(P, M, c, csid, element, data, visible) ==
    IF c.exc # ""
    THEN write_failed(P, M, c, csid)
    ELSE write_returned(reconciled([P EXCEPT ![element].visible = visible],
                                   M, element, data, csid),
                        c.S, element, csid)

\* A write operation after _changeset_id: the request is sent.
write_sent(P, M, r, method, path, element, t, visible) ==
    IF r.exc # ""
    THEN write_failed(P, M, r, r.ret)
    ELSE IF ~t.main
    THEN write_failed(P, M, Raise(Sent(r.S, method, path), "APIError"), r.ret)
    ELSE write_cleared(P, M,
                       auto_changeset_clear(Sent(r.S, method, path), FALSE, After(t)),
                       r.ret, element, t.data, visible)

\* A write operation on an element: the changeset id is resolved, the request
\* is sent, the auto changeset is cleared, and the element is reconciled with
\* the answer data of the server.
write_element(P, M, S, method, path, element, changeset, t, visible) ==
    write_sent(P, M, changeset_id(S, changeset, Before(t)),
               method, path, element, t, visible)

\* API.create_element
create_element(P, M, S, element, changeset, t) ==
    write_element(P, M, S, "PUT", <<P[element].cls, P[element].id, "create">>,
                  element, changeset, t, P[element].visible)

\* API.update_element
update_element(P, M, S, element, changeset, t) ==
    write_element(P, M, S, "PUT", <<P[element].cls, P[element].id>>,
                  element, changeset, t, P[element].visible)

\* API.delete_element
delete_element(P, M, S, element, changeset, t) ==
    write_element(P, M, S, "DELETE", <<P[element].cls, P[element].id>>,
                  element, changeset, t, "False")

\* A result whose entries hold the three keys whatever the acknowledgment
\* carries.
upload_result_all_keys(response, cls) ==
    [k \in {response[i].old_id : i \in {j \in DOMAIN response : response[j].cls = cls}} |->
       LET i == Max({j \in DOMAIN response :
                       response[j].cls = cls /\ response[j].old_id = k})
       IN [f \in {"old_id", "new_id", "new_version"} |-> response[i][f]]]

RECURSIVE upload_result(_, _)
\* The result of upload_diff for one class: every acknowledgment of the class
\* is stored under its old_id, a later one replaces an earlier one.
upload_result(response, cls) ==
    IF response = <<>>
    THEN EmptyDoc
    ELSE LET n == Len(response)
             ack == response[n]
             rest == upload_result(SubSeq(response, 1, n - 1), cls)
         IN IF ack.cls # cls
            THEN rest
            ELSE [k \in DOMAIN rest \cup {ack.old_id} |->
                    IF k = ack.old_id
                    THEN [f \in {a \in {"old_id", "new_id", "new_version"} :
                                   ack[a] # None} |-> ack[f]]
                    ELSE rest[k]]

\* An upload_diff that raised.
upload_failed(r, csid) ==
    [S |-> r.S, exc |-> r.exc, ret |-> None, csid |-> csid]

\* The end of upload_diff: the response is parsed into the result.
upload_closed(e, csid, t) ==
    IF e.exc # ""
    THEN upload_failed(e, csid)
    ELSE [S |-> e.S, exc |-> "", csid |-> csid,
          ret |-> [cls \in Classes |-> upload_result(t.response, cls)]]

\* upload_diff after _auto_changeset_clear(force=True): a changeset that is
\* not the auto changeset is closed.
upload_cleared(c, csid, t) ==
    IF c.exc = "" /\ c.ret # "True"
    THEN upload_closed(close_changeset(c.S, IntArg(int(csid)), After(t)), csid, t)
    ELSE upload_closed(c, csid, t)

\* upload_diff after _changeset_id: the request is sent.
upload_sent(r, t) ==
    IF r.exc # ""
    THEN upload_failed(r, r.ret)
    ELSE IF ~t.main
    THEN upload_failed(Raise(Sent(r.S, "POST", <<"changeset", r.ret, "upload">>),
                             "APIError"), r.ret)
    ELSE upload_cleared(auto_changeset_clear(
                            Sent(r.S, "POST", <<"changeset", r.ret, "upload">>),
                            TRUE, After(t)),
                        r.ret, t)

\* API.upload_diff
upload_diff(S, osc, changeset, t) ==
    upload_sent(changeset_id(S, changeset, Before(t)), t)

(***************************************************************************)
(* The primitives and their histories: construction and merge_history.     *)
(***************************************************************************)

\* The constructor arguments <<class, id, version>> that the constructions draw
\* from: one identity with two versions and without version, one of the same
\* class with another id, one of another class.
HistInputs ==
    {<<"Node", 1, 1>>, <<"Node", 1, 2>>, <<"Node", 1, None>>,
     <<"Node", 2, 1>>, <<"Way", 1, 1>>}

NoCall == [op |-> "init"]

HeapEmpty ==
    /\ prims = <<>>
    /\ maps = <<>>
    /\ counter = [c \in Classes |-> 0]

NoDocs == [parent |-> EmptyDoc, child |-> EmptyDoc]

\* API.__init__ with the defaults: no changeset, the auto changeset enabled.
NoAPI == [changeset |-> NoChangeset, enabled |-> TRUE, size |-> DefaultSize]

\* A server whose next changeset id is 1.
NoServer == [next |-> 1, closed |-> {}]

HistInit ==
    /\ HeapEmpty
    /\ docs = NoDocs
    /\ api = NoAPI
    /\ srv = NoServer
    /\ last = NoCall

Construct ==
    /\ Len(prims) < MaxObj
    /\ \E arg \in HistInputs :
         LET r == Primitive_init(prims, maps, counter, arg[1], arg[2], arg[3],
                                 "a1", 0)
         IN /\ prims' = r.prims
            /\ maps' = r.maps
            /\ counter' = r.counter
            /\ last' = [op |-> "init", self |-> Len(prims) + 1]
            /\ UNCHANGED <<docs, api, srv>>

MergeHistory ==
    \E self \in Objs(prims), other \in Objs(prims) :
       LET r == merge_history(prims, maps, self, other)
       IN /\ Len(r.maps) <= MaxMaps
          /\ prims' = r.prims
          /\ maps' = r.maps
          /\ UNCHANGED <<counter, docs, api, srv>>
          /\ last' = [op |-> "merge_history", self |-> self, other |-> other,
                      exc |-> r.exc, ret |-> r.ret,
                      hs |-> prims[self].history, ho |-> prims[other].history,
                      again |-> /\ last.op = "merge_history"
                                /\ last.exc = ""
                                /\ last.self = self
                                /\ last.other = other,
                      members |-> {self, other}
                                    \cup Values(maps[prims[self].history])
                                    \cup Values(maps[prims[other].history])]

HistNext == Construct \/ MergeHistory

vars == <<prims, maps, counter, docs, api, srv, last>>

SpecHist == HistInit /\ [][HistNext]_vars

\* The last call was a merge_history that returned normally.
Merged == last.op = "merge_history" /\ last.exc = ""

\* C5: after a.merge_history(b) succeeds, a, b and every instance that either
\* history held before the call reference one and the same history map.
C5_OneSharedHistory ==
    Merged => \A x, y \in last.members : prims[x].history = prims[y].history

\* C6: a.merge_history(b) returns the instance under the greatest version key
\* of the union of the two histories, and the unified map keeps a's entry on
\* every version key that both histories hold.
C6_ReturnsGreatestVersion ==
    Merged =>
      LET hs == maps[last.hs]
          ho == maps[last.ho]
          keys == DOMAIN hs \cup DOMAIN ho
          top == Max(keys)
          now == maps[prims[last.self].history]
      IN /\ last.ret = IF top \in DOMAIN hs THEN hs[top] ELSE ho[top]
         /\ DOMAIN now = keys
         /\ \A v \in DOMAIN hs : now[v] = hs[v]
         /\ \A v \in DOMAIN ho \ DOMAIN hs : now[v] = ho[v]

\* A merge in which both histories hold one version key with different
\* instances and the greatest version comes from other's history.
C6_Witness ==
    /\ Merged
    /\ \E v \in DOMAIN maps[last.hs] \cap DOMAIN maps[last.ho] :
          maps[last.hs][v] # maps[last.ho][v]
    /\ Max(DOMAIN maps[last.hs] \cup DOMAIN maps[last.ho])
          \notin DOMAIN maps[last.hs]

\* C7: merge_history is idempotent: a second a.merge_history(b) right after a
\* successful one returns the same representative and leaves a's history with
\* the same version keys and the same instances.
C7_MergeIdempotent ==
    [][(Merged /\ last'.op = "merge_history" /\ last'.self = last.self
          /\ last'.other = last.other)
       => /\ last'.exc = ""
          /\ last'.ret = last.ret
          /\ maps'[prims'[last.self].history] = maps[prims[last.self].history]
      ]_vars

\* A repeated merge of two distinct instances whose first call added a version
\* to a's history.
C7_Witness ==
    /\ Merged
    /\ last.again
    /\ last.self # last.other
    /\ Cardinality(DOMAIN maps[prims[last.self].history]) >= 2
    /\ last.ret # last.self

\* C8: merge_history fails when the wrappers differ in class or id or one has
\* no version, and the failing call changes no history map and no wrapper.
C8_FailedMergeChangesNothing ==
    [][(/\ last'.op = "merge_history"
        /\ \/ prims[last'.self].cls # prims[last'.other].cls
           \/ prims[last'.self].id # prims[last'.other].id
           \/ None \in {prims[last'.self].version, prims[last'.other].version})
       => /\ last'.exc = "ValueError"
          /\ prims' = prims
          /\ maps' = maps
      ]_vars

\* A merge refused for a missing version number after an earlier merge built a
\* shared history.
C8_Witness ==
    /\ last.op = "merge_history"
    /\ last.exc = "ValueError"
    /\ prims[last.self].cls = prims[last.other].cls
    /\ prims[last.self].id = prims[last.other].id
    /\ prims[last.other].version = None
    /\ Len(maps) > Len(prims)


(***************************************************************************)
(* The documents: add, discard and the diff of parent and child.           *)
(***************************************************************************)

\* The wrappers that the documents are filled from, as constructor arguments
\* <<class, id, version, tags, payload>>: four nodes of id 1 (two of them equal,
\* one with other tags, one with another version), a node of id 2, two ways
\* of id 1 with different nds, a relation, and a new node without id and
\* version.
DocInputs ==
    << <<"Node", 1, 1, "a1", 0>>, <<"Node", 1, 1, "a2", 0>>,
       <<"Node", 1, 2, "a1", 0>>, <<"Node", 1, 1, "a1", 0>>,
       <<"Node", 2, 1, "", 0>>, <<"Way", 1, 1, "a1", 0>>,
       <<"Way", 1, 1, "a1", 1>>, <<"Relation", 1, 1, "a1", 0>>,
       <<"Node", None, None, "a1", 0>> >>

RECURSIVE Constructed(_, _)
\* The heap after the constructions of the first n arguments of inputs.
Constructed(inputs, n) ==
    IF n = 0
    THEN [prims |-> <<>>, maps |-> <<>>, counter |-> [c \in Classes |-> 0]]
    ELSE LET h == Constructed(inputs, n - 1)
             arg == inputs[n]
         IN Primitive_init(h.prims, h.maps, h.counter,
                           arg[1], arg[2], arg[3], arg[4], arg[5])

DocHeap == Constructed(DocInputs, Len(DocInputs))

DocNames == {"parent", "child"}

DocInit ==
    /\ prims = DocHeap.prims
    /\ maps = DocHeap.maps
    /\ counter = DocHeap.counter
    /\ docs = NoDocs
    /\ api = NoAPI
    /\ srv = NoServer
    /\ last = NoCall

Add ==
    \E d \in DocNames, item \in Objs(prims) :
       /\ docs' = [docs EXCEPT ![d] = OSM_add(prims, docs[d], item)]
       /\ last' = [op |-> "add", doc |-> d, item |-> item]
       /\ UNCHANGED <<heapvars, api, srv>>

Discard ==
    \E d \in DocNames, item \in Objs(prims) :
       /\ docs' = [docs EXCEPT ![d] = OSM_discard(prims, docs[d], item)]
       /\ last' = [op |-> "discard", doc |-> d, item |-> item]
       /\ UNCHANGED <<heapvars, api, srv>>

FromDiff ==
    \E hashable \in BOOLEAN :
      /\ last' = diff_returned(
                    diff_sets(prims, docs.parent, docs.child),
                    set_add(diff_sets(prims, docs.parent, docs.child), hashable),
                    from_diff(prims, docs.parent, docs.child))
      /\ UNCHANGED <<heapvars, docs, api, srv>>

DocNext == Add \/ Discard \/ FromDiff

SpecDoc == DocInit /\ [][DocNext]_vars

\* The document of the section of the OSC with the given action.
Section(osc, action) ==
    IF \E i \in DOMAIN osc : osc[i].action = action
    THEN osc[CHOOSE i \in DOMAIN osc : osc[i].action = action].doc
    ELSE EmptyDoc

\* C1: from_diff puts an identity that only the parent has in delete (with
\* the parent's primitive), one that only the child has in create, one of
\* both with structurally unequal primitives in modify (with the child's
\* primitive), one of both with equal primitives nowhere; no primitive is in
\* two sections.
C1_DiffClassifies ==
    last.op = "from_diff" =>
      /\ last.exc = ""
      /\ LET create == Section(last.ret, "create")
             modify == Section(last.ret, "modify")
             delete == Section(last.ret, "delete")
             P == docs.parent
             C == docs.child
         IN /\ \A k \in DOMAIN P \ DOMAIN C :
                 /\ k \in DOMAIN delete /\ delete[k] = P[k]
                 /\ k \notin DOMAIN create \cup DOMAIN modify
            /\ \A k \in DOMAIN C \ DOMAIN P :
                 /\ k \in DOMAIN create /\ create[k] = C[k]
                 /\ k \notin DOMAIN modify \cup DOMAIN delete
            /\ \A k \in DOMAIN P \cap DOMAIN C :
                 IF /\ prims[P[k]].version = prims[C[k]].version
                    /\ prims[P[k]].tags = prims[C[k]].tags
                    /\ prims[P[k]].payload = prims[C[k]].payload
                 THEN k \notin DOMAIN create \cup DOMAIN modify \cup DOMAIN delete
                 ELSE /\ k \in DOMAIN modify /\ modify[k] = C[k]
                      /\ k \notin DOMAIN create \cup DOMAIN delete
            /\ DOMAIN create \cup DOMAIN modify \cup DOMAIN delete
                 \subseteq DOMAIN P \cup DOMAIN C
            /\ Len(last.ret) = Cardinality({last.ret[i].action : i \in DOMAIN last.ret})
            /\ \A x \in Values(create) : x \notin Values(modify) \cup Values(delete)
            /\ \A x \in Values(modify) : x \notin Values(delete)

\* C2: adding a primitive whose identity the document already holds leaves
\* the higher version of the two as the stored representative, and its
\* history holds both versions.
C2_AddMergesHistory ==
    [][(/\ last'.op = "add"
        /\ Key(prims, last'.item) \in DOMAIN docs[last'.doc]
        /\ prims[last'.item].version # None
        /\ prims[docs[last'.doc][Key(prims, last'.item)]].version # None)
       => LET old == docs[last'.doc][Key(prims, last'.item)]
              rep == docs'[last'.doc][Key(prims, last'.item)]
              both == {prims[old].version, prims[last'.item].version}
          IN /\ prims'[rep].version = Max(both)
             /\ both \subseteq DOMAIN maps'[prims'[rep].history]
      ]_vars


(***************************************************************************)
(* Changeset resolution alone: calls of _changeset_id on an API object     *)
(* whose transport always succeeds, for each size of the auto changeset.   *)
(***************************************************************************)

ResolveInit ==
    /\ HeapEmpty
    /\ docs = NoDocs
    /\ \E size \in 1..MaxSize, enabled \in BOOLEAN :
         api = [NoAPI EXCEPT !.size = size, !.enabled = enabled]
    /\ srv = NoServer
    /\ last = [op |-> "init", run |-> <<>>]

\* The explicit changeset arguments of the calls.
ExplicitArgs == {IntArg(1), ChangesetArg(1), ChangesetArg(None)}

\* _changeset_id(None); run lists the ids that these calls have returned.
ResolveAuto ==
    /\ srv.next < MaxCs
    /\ \E newid \in {srv.next, srv.next + 1} :
         LET r == changeset_id([api |-> api, srv |-> srv, reqs |-> <<>>], NoArg,
                               [close |-> TRUE, create |-> TRUE, newid |-> newid])
         IN /\ api' = r.S.api
            /\ srv' = r.S.srv
            /\ last' = [op |-> "_changeset_id", changeset |-> NoArg,
                        exc |-> r.exc, ret |-> r.ret, reqs |-> r.S.reqs,
                        run |-> IF r.exc = "" THEN Append(last.run, int(r.ret))
                                ELSE last.run]
    /\ UNCHANGED <<heapvars, docs>>

\* _changeset_id(changeset) with an explicit changeset.
ResolveExplicit ==
    /\ \E changeset \in ExplicitArgs :
         LET r == changeset_id([api |-> api, srv |-> srv, reqs |-> <<>>],
                               changeset,
                               [close |-> TRUE, create |-> TRUE, newid |-> srv.next])
         IN /\ api' = r.S.api
            /\ srv' = r.S.srv
            /\ last' = [op |-> "_changeset_id", changeset |-> changeset,
                        exc |-> r.exc, ret |-> r.ret, reqs |-> r.S.reqs,
                        run |-> last.run]
    /\ UNCHANGED <<heapvars, docs>>

ResolveNext == ResolveAuto \/ ResolveExplicit

SpecResolve == ResolveInit /\ [][ResolveNext]_vars

\* C4: with size N, consecutive _changeset_id(None) calls return one
\* changeset id for exactly N calls in a row and then a new id that no earlier
\* call returned, and the counter of the open changeset never exceeds N.
C4_BatchesOfSize ==
    /\ \A i, j \in DOMAIN last.run :
          (last.run[i] = last.run[j]) <=> ((i - 1) \div api.size = (j - 1) \div api.size)
    /\ api.changeset.counter <= api.size

\* Three calls with size 2 that returned X, X, Y.
C4_Witness ==
    /\ api.size = 2
    /\ Len(last.run) = 3
    /\ last.run[1] = last.run[2]
    /\ last.run[3] # last.run[1]


(***************************************************************************)
(* The API object: the write operations, upload_diff and close_changeset,  *)
(* with a transport that may fail at every request.                        *)
(***************************************************************************)

\* The wrappers that the operations act on: a new node without id and
\* version, and versions 1 and 2 of node 1, which share one history.
APIInputs ==
    << <<"Node", None, None, "a1", 0>>, <<"Node", 1, 1, "a1", 0>>,
       <<"Node", 1, 2, "a2", 0>> >>

APIHeap ==
    LET h == Constructed(APIInputs, Len(APIInputs))
        m == merge_history(h.prims, h.maps, 2, 3)
    IN [prims |-> m.prims, maps |-> m.maps, counter |-> h.counter]

APIInit ==
    /\ prims = APIHeap.prims
    /\ maps = APIHeap.maps
    /\ counter = APIHeap.counter
    /\ docs = NoDocs
    /\ \E enabled \in BOOLEAN :
         api = [changeset |-> NoChangeset, enabled |-> enabled, size |-> 1]
    /\ srv = NoServer
    /\ last = NoCall

\* The changeset arguments of the calls.
APIArgs == {NoArg, IntArg(1), ChangesetArg(None)}

\* The answers of the server to a write request.
ServerData == {str(3)}

\* The acknowledgments of the server to an upload, of a created, a modified
\* and a never submitted primitive.
Ack(cls, old_id, new_id, new_version) ==
    [cls |-> cls, old_id |-> old_id, new_id |-> new_id, new_version |-> new_version]

Responses ==
    { <<Ack("Node", -1, 42, 1)>>, <<Ack("Node", 1, 1, 3)>>,
      <<Ack("Node", -1, 42, 1), Ack("Node", -7, 43, 1)>> }

\* The OSC documents that are uploaded.
APIOSCs ==
    { OSC_init(APIHeap.prims, <<[action |-> "create", elements |-> {1}]>>),
      OSC_init(APIHeap.prims, <<[action |-> "modify", elements |-> {3}]>>) }

\* The outcomes of one call: the request that fails, if any (a failure ends
\* the call, so that at most one request fails), the changeset id that the
\* server hands out, its answer to a write and to an upload.
\* A call with an explicit changeset neither closes nor creates one before
\* its own request.
Failures(changeset) ==
    IF changeset = NoArg THEN {"none", "close1", "create", "main", "close2"}
    ELSE {"none", "main", "close2"}

Outcome(failure, data, response) ==
    [close1 |-> failure # "close1", create |-> failure # "create",
     newid |-> srv.next, main |-> failure # "main", close2 |-> failure # "close2",
     data |-> data, response |-> response]

WriteOutcomes(changeset) ==
    {Outcome(f, data, <<>>) : f \in Failures(changeset), data \in ServerData}

\* The response is read only when the upload request succeeds.
UploadOutcomes(changeset) ==
    {Outcome("none", str(None), response) : response \in Responses}
    \cup {Outcome(f, str(None), <<>>) : f \in Failures(changeset) \ {"none"}}

Call == [api |-> api, srv |-> srv, reqs |-> <<>>]

Written(op, element, changeset, t, r) ==
    /\ Len(r.maps) <= Len(APIHeap.maps) + MaxWrites
    /\ prims' = r.prims
    /\ maps' = r.maps
    /\ api' = r.S.api
    /\ srv' = r.S.srv
    /\ last' = [op |-> op, element |-> element, changeset |-> changeset,
                exc |-> r.exc, ret |-> r.ret, csid |-> r.csid, data |-> t.data,
                reqs |-> r.S.reqs, old_id |-> prims[element].id,
                old_history |-> maps[prims[element].history]]
    /\ UNCHANGED <<counter, docs>>

CreateElement ==
    /\ srv.next < MaxOpened
    /\ \E element \in Objs(prims), changeset \in APIArgs :
       \E t \in WriteOutcomes(changeset) :
         Written("create_element", element, changeset, t,
                 create_element(prims, maps, Call, element, changeset, t))

UpdateElement ==
    /\ srv.next < MaxOpened
    /\ \E element \in Objs(prims), changeset \in APIArgs :
       \E t \in WriteOutcomes(changeset) :
         Written("update_element", element, changeset, t,
                 update_element(prims, maps, Call, element, changeset, t))

DeleteElement ==
    /\ srv.next < MaxOpened
    /\ \E element \in Objs(prims), changeset \in APIArgs :
       \E t \in WriteOutcomes(changeset) :
         Written("delete_element", element, changeset, t,
                 delete_element(prims, maps, Call, element, changeset, t))

UploadDiff ==
    /\ srv.next < MaxOpened
    /\ \E osc \in APIOSCs, changeset \in APIArgs :
       \E t \in UploadOutcomes(changeset) :
         LET r == upload_diff(Call, osc, changeset, t)
         IN /\ api' = r.S.api
            /\ srv' = r.S.srv
            /\ last' = [op |-> "upload_diff", osc |-> osc, changeset |-> changeset,
                        exc |-> r.exc, ret |-> r.ret, csid |-> r.csid,
                        response |-> t.response, reqs |-> r.S.reqs]
    /\ UNCHANGED <<heapvars, docs>>

CloseChangeset ==
    /\ \E changeset \in APIArgs, ok \in BOOLEAN :
         LET r == close_changeset(Call, changeset,
                                  [close |-> ok, create |-> FALSE, newid |-> None])
         IN /\ api' = r.S.api
            /\ srv' = r.S.srv
            /\ last' = [op |-> "close_changeset", changeset |-> changeset,
                        exc |-> r.exc, ret |-> r.ret, reqs |-> r.S.reqs]
    /\ UNCHANGED <<heapvars, docs>>

APINext ==
    \/ CreateElement
    \/ UpdateElement
    \/ DeleteElement
    \/ UploadDiff
    \/ CloseChangeset

SpecAPI == APIInit /\ [][APINext]_vars


\* The keys (class, id) of the primitives submitted in an OSC document.
Submitted(osc) == UNION {DOMAIN osc[s].doc : s \in DOMAIN osc}

\* C3: after a successful create of a primitive with a placeholder id, the
\* primitive carries the id assigned by the server: create_element leaves the
\* id that the server answered, version 1 and the history {1: self}, and
\* upload_diff leaves on every primitive of the create section the new_id and
\* the new_version of its acknowledgment and the history {new_version: self}.
C3_CreateAssignsServerId ==
    /\ (last.op = "create_element" /\ last.exc = "" /\ last.old_id < 0) =>
         /\ prims[last.element].id = int(last.data)
         /\ prims[last.element].version = 1
         /\ maps[prims[last.element].history] = [v \in {1} |-> last.element]
    /\ (last.op = "upload_diff" /\ last.exc = "") =>
         \A s \in DOMAIN last.osc : \A i \in DOMAIN last.response :
            \A k \in DOMAIN last.osc[s].doc :
               LET ack == last.response[i]
                   o == last.osc[s].doc[k]
               IN (last.osc[s].action = "create" /\ k = <<ack.cls, ack.old_id>>
                   /\ ack.new_id # None) =>
                     /\ prims[o].id = ack.new_id
                     /\ prims[o].version = ack.new_version
                     /\ maps[prims[o].history] = [v \in {ack.new_version} |-> o]

\* C9: after a successful update_element or delete_element the version of the
\* element is the version that the server returned, its changeset is the
\* changeset id of the request, its history is exactly {version: element},
\* and after delete_element its visible attribute is False.
C9_WriteReconciles ==
    (last.op \in {"update_element", "delete_element"} /\ last.exc = "") =>
        LET e == last.element
        IN /\ last.ret = e
           /\ prims[e].version = int(last.data)
           /\ prims[e].changeset = int(last.csid)
           /\ maps[prims[e].history] = [v \in {prims[e].version} |-> e]
           /\ last.op = "delete_element" => prims[e].visible = "False"

\* A successful delete_element of an element whose history had two entries.
C9_Witness ==
    /\ last.op = "delete_element"
    /\ last.exc = ""
    /\ Cardinality(DOMAIN last.old_history) = 2
    /\ DOMAIN maps[prims[last.element].history] = {int(last.data)}

\* An acknowledgment of the response whose (class, old_id) was not submitted.
Unmatched(osc, response) ==
    \E i \in DOMAIN response :
        <<response[i].cls, response[i].old_id>> \notin Submitted(osc)

\* C10: an upload_diff that was sent and whose response holds an acknowledgment with an old_id
\* of no primitive of the uploaded OSC does not return normally: it raises
\* ReconciliationMismatch (or the error of a failed request).
C10_UnmatchedAckRaises ==
    (/\ last.op = "upload_diff"
     /\ \E i \in DOMAIN last.reqs : last.reqs[i].method = "POST"
     /\ Unmatched(last.osc, last.response)) =>
        last.exc \in {"ReconciliationMismatch", "APIError"}

\* C11: close_changeset leaves auto_changeset["enabled"] as it was before the
\* call and opens no auto session, whether it returns or raises.
C11_CloseKeepsEnabled ==
    [][last'.op = "close_changeset" =>
          (api'.enabled = api.enabled /\ api'.changeset = api.changeset)]_vars

(***************************************************************************)
(* delete_elements: the elements are downloaded and deleted one by one.    *)
(***************************************************************************)

\* The ids that the server knows, and the version it holds of each.
ServerIds == 1..MaxFetched
ServerVersion == 1

\* The kinds of element of the server, as the type_ argument names them.
Kinds == [node |-> "Node", way |-> "Way", relation |-> "Relation"]

RECURSIVE fetched(_, _, _)
\* OSM.from_xml on the answer to get_elements: one wrapper for each id, in the
\* order of the answer.
fetched(h, cls, ids) ==
    IF ids = <<>>
    THEN h
    ELSE LET n == Len(ids)
             g == fetched(h, cls, SubSeq(ids, 1, n - 1))
         IN Primitive_init(g.prims, g.maps, g.counter, cls, ids[n], ServerVersion,
                           "a1", 0)

\* The outcome of the requests of one delete_element of the batch; the server
\* hands out its next changeset id.
OutcomeAt(S, failure, data) ==
    [close1 |-> failure # "close1", create |-> failure # "create",
     newid |-> S.srv.next, main |-> failure # "main", close2 |-> failure # "close2",
     data |-> data, response |-> <<>>]

\* A loop that goes on to the next element after an exception.
batch_done_at_last(acc, elements) == elements = <<>>

\* The loop of delete_elements ends with the last element or with an exception.
batch_done(acc, elements) == elements = <<>> \/ acc.exc # ""

\* delete.append(self.delete_element(element, changeset))
delete_appended(acc, r) ==
    [prims |-> r.prims, maps |-> r.maps, S |-> r.S,
     exc |-> IF acc.exc # "" THEN acc.exc ELSE r.exc,
     deleted |-> IF r.exc = "" THEN Append(acc.deleted, r.ret) ELSE acc.deleted,
     csids |-> IF r.exc = "" THEN Append(acc.csids, r.csid) ELSE acc.csids]

RECURSIVE delete_loop(_, _, _, _, _)
\* The for loop of delete_elements over the downloaded elements; plan[i] is
\* the request that fails in the i-th delete_element.
delete_loop(acc, elements, changeset, plan, data) ==
    IF batch_done(acc, elements)
    THEN acc
    ELSE delete_loop(
             delete_appended(acc,
                 delete_element(acc.prims, acc.maps, acc.S, Head(elements), changeset,
                                OutcomeAt(acc.S, Head(plan), data))),
             Tail(elements), changeset, Tail(plan), data)

\* The end of delete_elements: the OSC of the deleted elements is returned.
delete_returned(acc, g, elements) ==
    [prims |-> acc.prims, maps |-> acc.maps, counter |-> g.counter, S |-> acc.S,
     exc |-> acc.exc, deleted |-> acc.deleted, csids |-> acc.csids,
     elements |-> elements, pre |-> [prims |-> g.prims, maps |-> g.maps]]

\* delete_elements after get_elements: the wrappers base + 1 .. base + n of
\* the heap g are the downloaded elements, in the order of the document.
delete_looped(g, base, S, ids, changeset, plan, data) ==
    delete_returned(
        delete_loop([prims |-> g.prims, maps |-> g.maps, S |-> S, exc |-> "",
                     deleted |-> <<>>, csids |-> <<>>],
                    [i \in 1..Len(ids) |-> base + i], changeset, plan, data),
        g, [i \in 1..Len(ids) |-> base + i])

\* delete_elements raises before any element is downloaded.
delete_refused(h, S, exc) ==
    [prims |-> h.prims, maps |-> h.maps, counter |-> h.counter, S |-> S,
     exc |-> exc, deleted |-> <<>>, csids |-> <<>>, elements |-> <<>>,
     pre |-> [prims |-> h.prims, maps |-> h.maps]]

\* API.delete_elements
delete_elements(h, S, type, ids, changeset, got, plan, data) ==
    IF type \notin DOMAIN Kinds
    THEN delete_refused(h, S, "ValueError")
    ELSE IF ~got
    THEN delete_refused(h, Sent(S, "GET", <<type, ids>>), "APIError")
    ELSE delete_looped(fetched(h, Kinds[type], ids), Len(h.prims),
                       Sent(S, "GET", <<type, ids>>), ids, changeset, plan, data)

RECURSIVE Ascending(_)
\* The ids of S in increasing order.
Ascending(S) ==
    IF S = {} THEN <<>> ELSE Append(Ascending(S \ {Max(S)}), Max(S))

\* The batches of at most n ids that a caller asks to delete.
Batches(n) ==
    {Ascending(T) : T \in {U \in SUBSET ServerIds : U # {} /\ Cardinality(U) <= n}}

\* At most one delete_element of a batch of n fails, at one of its requests.
Plans(n, changeset) ==
    {[i \in 1..n |-> "none"]}
    \cup {[i \in 1..n |-> IF i = k THEN f ELSE "none"] :
            k \in 1..n, f \in Failures(changeset) \ {"none"}}

\* The auto sessions that earlier writes leave behind: none, or changeset 1
\* with a counter up to size (at size when its closing request failed).
Sessions(size) ==
    {NoChangeset} \cup {[id |-> 1, counter |-> c] : c \in 1..size}

BatchInit ==
    /\ HeapEmpty
    /\ docs = NoDocs
    /\ \E enabled \in BOOLEAN, size \in 1..MaxSize :
         \E changeset \in Sessions(size) :
            /\ api = [changeset |-> changeset, enabled |-> enabled, size |-> size]
            /\ srv = [next |-> changeset.id + 1, closed |-> {}]
    /\ last = NoCall

Heap == [prims |-> prims, maps |-> maps, counter |-> counter]

Batched(type, ids, changeset, data, r) ==
    /\ prims' = r.prims
    /\ maps' = r.maps
    /\ counter' = r.counter
    /\ api' = r.S.api
    /\ srv' = r.S.srv
    /\ last' = [op |-> "delete_elements", type |-> type, ids |-> ids,
                changeset |-> changeset, exc |-> r.exc, ret |-> r.deleted,
                csids |-> r.csids, elements |-> r.elements, pre |-> r.pre,
                data |-> data, reqs |-> r.S.reqs]
    /\ UNCHANGED docs

DeleteElements ==
    /\ prims = <<>>
    /\ \E type \in {"node", "area"}, changeset \in APIArgs, got \in BOOLEAN,
          ids \in Batches(MaxFetched), data \in ServerData :
         \E plan \in Plans(Len(ids), changeset) :
            Batched(type, ids, changeset, data,
                    delete_elements(Heap, Call, type, ids, changeset, got, plan, data))

Torn(session, r) ==
    /\ api' = r.S.api
    /\ srv' = r.S.srv
    /\ last' = [op |-> "__del__", session |-> session, exc |-> r.exc,
                reqs |-> r.S.reqs]
    /\ UNCHANGED <<heapvars, docs>>

\* API.__del__: self._auto_changeset_clear(force=True)
Del ==
    \E ok \in BOOLEAN :
       Torn(api.changeset,
            auto_changeset_clear(Call, TRUE,
                                 [close |-> ok, create |-> FALSE, newid |-> None]))

BatchNext == DeleteElements \/ Del

SpecBatch == BatchInit /\ [][BatchNext]_vars

\* The element e carries the reconciled state of a delete in changeset csid.
Deleted(e, data, csid) ==
    /\ prims[e].version = int(data)
    /\ prims[e].changeset = int(csid)
    /\ prims[e].visible = "False"
    /\ maps[prims[e].history] = [v \in {int(data)} |-> e]

\* The element e is as it was downloaded.
AsFetched(e, pre) ==
    /\ prims[e] = pre.prims[e]
    /\ maps[prims[e].history] = pre.maps[pre.prims[e].history]

\* C12: a delete_elements that downloaded e1..en deletes them in order and
\* stops at the first delete_element that raises, at ek: the exception reaches
\* the caller, e1..e(k-1) are reconciled (new version, changeset, visible
\* False, history of one entry), ek..en are as downloaded, and no DELETE
\* request is sent for e(k+1)..en.  Without an exception all are reconciled.
C12_BatchStopsAtFailure ==
    (last.op = "delete_elements" /\ last.elements # <<>>) =>
        LET n == Len(last.elements)
            k == Len(last.ret) + 1
        IN /\ (last.exc = "") <=> (k = n + 1)
           /\ \A i \in 1..n :
                 IF i < k
                 THEN /\ last.ret[i] = last.elements[i]
                      /\ Deleted(last.elements[i], last.data, last.csids[i])
                 ELSE AsFetched(last.elements[i], last.pre)
           /\ \A i \in 1..n : \A j \in DOMAIN last.reqs :
                 (i > k /\ last.reqs[j].method = "DELETE") =>
                    last.reqs[j].path # <<prims[last.elements[i]].cls,
                                          prims[last.elements[i]].id>>

\* A batch of three whose second delete_element fails at a request.
C12_Witness ==
    /\ last.op = "delete_elements"
    /\ last.exc = "APIError"
    /\ Len(last.elements) = 3
    /\ Len(last.ret) = 1
    /\ prims[last.elements[1]].visible = "False"
    /\ prims[last.elements[3]].version = ServerVersion

(***************************************************************************)
(* The placeholder ids of wrappers constructed without id.                 *)
(***************************************************************************)

\* The arguments of the constructions: every class, without id and with an
\* explicit id.
IdInputs == {<<cls, id>> : cls \in Classes, id \in {None, 1, 2}}

IdInit ==
    /\ HeapEmpty
    /\ docs = NoDocs
    /\ api = NoAPI
    /\ srv = NoServer
    /\ last = NoCall

Constructing(arg, r) ==
    /\ prims' = r.prims
    /\ maps' = r.maps
    /\ counter' = r.counter
    /\ last' = [op |-> "init", self |-> Len(prims) + 1, id |-> arg[2]]
    /\ UNCHANGED <<docs, api, srv>>

New ==
    /\ Len(prims) < MaxObj
    /\ \E arg \in IdInputs :
         Constructing(arg, Primitive_init(prims, maps, counter, arg[1], arg[2],
                                          None, "a1", 0))

IdNext == New

SpecIds == IdInit /\ [][IdNext]_vars

\* The wrappers of class cls that were constructed without id: the explicit
\* ids of IdInputs are positive.
Placeholders(P, cls) == {p \in Objs(P) : P[p].cls = cls /\ P[p].id < 0}

Orderings(S) ==
    {q \in [1..Cardinality(S) -> S] :
        \A i, j \in DOMAIN q : i # j => q[i] # q[j]}

RECURSIVE OSM_added(_, _, _)
\* The loop of OSM.__init__ over its items in the order q.
OSM_added(P, doc, q) ==
    IF q = <<>> THEN doc ELSE OSM_added(P, OSM_add(P, doc, Head(q)), Tail(q))

\* C15: from_diff, whether it returns or raises, changes neither document
\* nor any wrapper or history map, and the document of every section of the
\* result it returns is the same in whatever order the set of the section is
\* iterated.
C15_DiffIsPure ==
    [][last'.op = "from_diff" =>
          /\ docs' = docs
          /\ prims' = prims
          /\ maps' = maps
          /\ \A s \in DOMAIN last'.ret :
                \A q \in Orderings(last'.sets[last'.ret[s].action]) :
                   OSM_added(prims, EmptyDoc, q) = last'.ret[s].doc]_vars

\* A diff with the three sections, one of them of two primitives or more.
C15_Witness ==
    /\ last.op = "from_diff"
    /\ last.exc = ""
    /\ \E s \in DOMAIN last.ret : Cardinality(DOMAIN last.ret[s].doc) >= 2
    /\ Len(last.ret) = 3

\* C16: _changeset_id with a Changeset wrapper that has an id, or with an
\* integer, returns that id (as a string), sends no request and changes
\* neither the open auto changeset nor its counter nor the server.
C16_ExplicitChangesetBypasses ==
    [][(/\ last'.op = "_changeset_id"
        /\ last'.changeset.type \in {"Changeset", "int"}
        /\ last'.changeset.id # None) =>
           /\ last'.exc = ""
           /\ last'.ret = str(last'.changeset.id)
           /\ last'.reqs = <<>>
           /\ api' = api
           /\ srv' = srv]_vars

\* A resolution of the explicit id 1 while the auto changeset 1 is open.
C16_Witness ==
    /\ last.op = "_changeset_id"
    /\ last.changeset = IntArg(1)
    /\ last.ret = str(1)
    /\ api.changeset.id = 1
    /\ api.changeset.counter >= 1

\* C17: _changeset_id raises ValueError for a Changeset wrapper without id
\* and another error, TypeError, without changeset while auto_changeset is
\* disabled; both times it sends no request and changes neither the open auto
\* changeset nor its counter.
C17_ResolutionErrors ==
    [][last'.op = "_changeset_id" =>
          /\ last'.changeset = ChangesetArg(None) =>
                /\ last'.exc = "ValueError"
                /\ last'.reqs = <<>>
                /\ api' = api
                /\ srv' = srv
          /\ (last'.changeset = NoArg /\ ~api.enabled) =>
                /\ last'.exc = "TypeError"
                /\ last'.exc # "ValueError"
                /\ last'.reqs = <<>>
                /\ api' = api
                /\ srv' = srv]_vars

\* A resolution without changeset that raised while auto_changeset is
\* disabled.
C17_Witness ==
    /\ last.op = "_changeset_id"
    /\ last.changeset = NoArg
    /\ last.exc = "TypeError"
    /\ ~api.enabled

\* C18: __del__ with an open auto changeset, whatever its counter, sends the
\* close request of that changeset and nothing else, and when the request
\* succeeds the changeset is closed and the API holds no changeset; without
\* open changeset it sends no request.
C18_TeardownCloses ==
    [][last'.op = "__del__" =>
          IF api.changeset = NoChangeset
          THEN /\ last'.reqs = <<>>
               /\ last'.exc = ""
               /\ api' = api
               /\ srv' = srv
          ELSE /\ last'.reqs = <<[method |-> "PUT",
                                  path |-> <<"changeset", str(api.changeset.id),
                                             "close">>]>>
               /\ last'.exc = "" =>
                     /\ api'.changeset = NoChangeset
                     /\ api.changeset.id \in srv'.closed]_vars

\* A teardown that closed a changeset whose counter was below size.
C18_Witness ==
    /\ last.op = "__del__"
    /\ last.exc = ""
    /\ last.session # NoChangeset
    /\ last.session.counter < api.size
    /\ api.changeset = NoChangeset
    /\ last.session.id \in srv.closed

\* C19: x in doc follows the instance stored under the identity of x: after
\* doc.add(y) it is true exactly when y has the identity of x and equals x
\* structurally, or y has another identity and x in doc was true before; after
\* doc.discard(y) exactly when it was true before and y has another identity;
\* operations on the other document and from_diff leave it as it was.
C19_ContainsFollowsStored ==
    [][/\ last'.op \in {"add", "discard"} =>
          /\ \A d \in DocNames \ {last'.doc} : docs'[d] = docs[d]
          /\ \A x \in Objs(prims) :
                OSM_contains(prims, docs'[last'.doc], x) <=>
                   IF Key(prims, last'.item) = Key(prims, x)
                   THEN last'.op = "add" /\ Eq(prims, last'.item, x)
                   ELSE OSM_contains(prims, docs[last'.doc], x)
       /\ last'.op = "from_diff" => docs' = docs]_vars

\* After the add of wrapper 4 onto the identity of the wrappers 1 and 2, the
\* equal wrapper 1 is in the document and the different wrapper 2 is not.
C19_Witness ==
    /\ last.op = "add"
    /\ last.item = 4
    /\ OSM_contains(prims, docs[last.doc], 1)
    /\ ~OSM_contains(prims, docs[last.doc], 2)
    /\ Key(prims, 2) = Key(prims, 4)

(***************************************************************************)
(* OSM.from_xml: the elements of the document are parsed and the elements  *)
(* of one identity are merged.                                             *)
(***************************************************************************)

\* The elements (class, id, version) of the parsed documents.
ParsedInputs ==
    {<<"Node", 1, 1>>, <<"Node", 1, 2>>, <<"Node", 1, 3>>, <<"Node", 1, None>>,
     <<"Node", 2, 1>>, <<"Way", 1, 1>>}

\* from_xml after merge_history of the stored wrapper with the new one: the
\* returned wrapper is stored, an exception ends the parsing.
from_xml_merged(acc, m, key) ==
    [prims |-> m.prims, maps |-> m.maps, counter |-> acc.counter, exc |-> m.exc,
     containers |-> IF m.exc # "" THEN acc.containers
                    ELSE [acc.containers EXCEPT ![key] = m.ret]]

\* The body of the loop of from_xml for the wrapper o of the element, which
\* the heap h holds.
from_xml_element(acc, h, o, key) ==
    IF key \in DOMAIN acc.containers
    THEN from_xml_merged([acc EXCEPT !.counter = h.counter],
                         merge_history(h.prims, h.maps, acc.containers[key], o), key)
    ELSE [prims |-> h.prims, maps |-> h.maps, counter |-> h.counter, exc |-> "",
          containers |-> [k \in DOMAIN acc.containers \cup {key} |->
                            IF k = key THEN o ELSE acc.containers[k]]]

RECURSIVE from_xml_loop(_, _)
\* The loops of from_xml over the elements of the document.
from_xml_loop(acc, elements) ==
    IF elements = <<>> \/ acc.exc # ""
    THEN acc
    ELSE from_xml_loop(
             from_xml_element(acc,
                 Primitive_init(acc.prims, acc.maps, acc.counter,
                                Head(elements)[1], Head(elements)[2],
                                Head(elements)[3], "a1", 0),
                 Len(acc.prims) + 1, <<Head(elements)[1], Head(elements)[2]>>),
             Tail(elements))

\* OSM.from_xml: the nodes, then the ways, then the relations of the document
\* go through the loop; containers is the document that is returned.
from_xml(h, xml) ==
    from_xml_loop([prims |-> h.prims, maps |-> h.maps, counter |-> h.counter,
                   exc |-> "", containers |-> EmptyDoc],
                  SelectSeq(xml, LAMBDA e : e[1] = "Node")
                  \o SelectSeq(xml, LAMBDA e : e[1] = "Way")
                  \o SelectSeq(xml, LAMBDA e : e[1] = "Relation"))

ParseInit ==
    /\ HeapEmpty
    /\ docs = NoDocs
    /\ api = NoAPI
    /\ srv = NoServer
    /\ last = NoCall

Parsed(xml, r) ==
    /\ prims' = r.prims
    /\ maps' = r.maps
    /\ counter' = r.counter
    /\ last' = [op |-> "from_xml", xml |-> xml, exc |-> r.exc,
                ret |-> IF r.exc = "" THEN r.containers ELSE EmptyDoc]
    /\ UNCHANGED <<docs, api, srv>>

FromXml ==
    /\ prims = <<>>
    /\ \E n \in 1..MaxParsed : \E xml \in [1..n -> ParsedInputs] :
          Parsed(xml, from_xml(Heap, xml))

ParseNext == FromXml

SpecParse == ParseInit /\ [][ParseNext]_vars

\* The versions of the elements of the identity key in the document xml.
ParsedVersions(xml, key) ==
    {xml[i][3] : i \in {j \in DOMAIN xml : <<xml[j][1], xml[j][2]>> = key}}

\* C20: when from_xml returns, an identity whose elements in the document
\* carry pairwise different versions has one entry in the returned document,
\* the wrapper of the highest of these versions, and the history of that
\* wrapper maps each of these versions to a wrapper of that identity and
\* version; a document all of whose identities are such is parsed without
\* exception.
C20_ParseMergesVersions ==
    last.op = "from_xml" =>
        LET keys == {<<last.xml[i][1], last.xml[i][2]>> : i \in DOMAIN last.xml}
            count(key) == Cardinality({i \in DOMAIN last.xml :
                                         <<last.xml[i][1], last.xml[i][2]>> = key})
            apart(key) == /\ None \notin ParsedVersions(last.xml, key)
                          /\ Cardinality(ParsedVersions(last.xml, key)) = count(key)
        IN /\ (\A key \in keys : apart(key)) => last.exc = ""
           /\ last.exc = "" =>
                \A key \in keys :
                   apart(key) =>
                      /\ key \in DOMAIN last.ret
                      /\ prims[last.ret[key]].version
                           = Max(ParsedVersions(last.xml, key))
                      /\ DOMAIN maps[prims[last.ret[key]].history]
                           = ParsedVersions(last.xml, key)
                      /\ \A v \in ParsedVersions(last.xml, key) :
                            LET o == maps[prims[last.ret[key]].history][v]
                            IN /\ Key(prims, o) = key
                               /\ prims[o].version = v
                               /\ prims[o].history = prims[last.ret[key]].history

\* A document with the versions 1, 3 and 2 of node 1, in this order.
C20_Witness ==
    /\ last.op = "from_xml"
    /\ last.xml = << <<"Node", 1, 1>>, <<"Node", 1, 3>>, <<"Node", 1, 2>> >>
    /\ last.exc = ""
    /\ DOMAIN last.ret = {<<"Node", 1>>}
    /\ prims[last.ret[<<"Node", 1>>]].version = 3

(***************************************************************************)
(* The incremental appends of an OSC: create, modify and delete.           *)
(***************************************************************************)

\* An append that joins the first section of its action wherever it is.
OSC_append_folded(P, sections, action, element) ==
    IF \E i \in DOMAIN sections : sections[i].action = action
    THEN LET i == CHOOSE j \in DOMAIN sections : sections[j].action = action
         IN [sections EXCEPT ![i].doc = OSM_add(P, @, element)]
    ELSE Append(sections,
                [action |-> action, doc |-> OSM_add(P, EmptyDoc, element)])

\* OSC.create / OSC.modify / OSC.delete: a new section (action, OSM()) at the
\* end unless the last section has the action, then sections[-1][1].add.
OSC_append(P, sections, action, element) ==
    IF Len(sections) = 0 \/ sections[Len(sections)].action # action
    THEN Append(sections,
                [action |-> action, doc |-> OSM_add(P, EmptyDoc, element)])
    ELSE [sections EXCEPT ![Len(sections)].doc = OSM_add(P, @, element)]

\* The wrappers that are appended: two versions of node 1 and a way.
OSCInputs == << <<"Node", 1, 1, "a1", 0>>, <<"Node", 1, 2, "a1", 0>>,
               <<"Way", 1, 1, "a1", 0>> >>

\* OSC(): no section.  The document is docs.osc, last.calls the appends made.
OSCInit ==
    /\ prims = Constructed(OSCInputs, Len(OSCInputs)).prims
    /\ maps = Constructed(OSCInputs, Len(OSCInputs)).maps
    /\ counter = Constructed(OSCInputs, Len(OSCInputs)).counter
    /\ docs = [osc |-> <<>>]
    /\ api = NoAPI
    /\ srv = NoServer
    /\ last = [op |-> "init", calls |-> <<>>]

OSCAppend ==
    /\ Len(last.calls) < MaxAppends
    /\ \E action \in {"create", "modify", "delete"}, element \in Objs(prims) :
          /\ docs' = [osc |-> OSC_append(prims, docs.osc, action, element)]
          /\ last' = [op |-> action, element |-> element,
                      calls |-> Append(last.calls, <<action, element>>)]
          /\ UNCHANGED <<heapvars, api, srv>>

OSCNext == OSCAppend

SpecOSC == OSCInit /\ [][OSCNext]_vars

\* The calls at which a run of equal actions starts.
RunStarts(calls) ==
    {i \in DOMAIN calls : i = 1 \/ calls[i - 1][1] # calls[i][1]}

\* The elements of the run of calls that starts at s, in call order.
RunElements(calls, s) ==
    LET e == IF \E t \in RunStarts(calls) : t > s
             THEN CHOOSE t \in RunStarts(calls) :
                     t > s /\ \A u \in RunStarts(calls) : u > s => t <= u
             ELSE Len(calls) + 1
    IN [i \in 1..(e - s) |-> calls[s + i - 1][2]]

\* C21: an append joins the last section when that has the action of the
\* append and opens a new last section otherwise, every earlier section stays
\* as it was, and the sections are the maximal runs of equal actions of the
\* calls in call order, each holding its elements as added in that order.
C21_AppendRuns ==
    [][last'.op \in {"create", "modify", "delete"} =>
         LET n == Len(docs.osc)
             joins == n > 0 /\ docs.osc[n].action = last'.op
         IN /\ Len(docs'.osc) = IF joins THEN n ELSE n + 1
            /\ \A i \in 1..(IF joins THEN n - 1 ELSE n) :
                  docs'.osc[i] = docs.osc[i]
            /\ docs'.osc[Len(docs'.osc)].action = last'.op
            /\ docs'.osc[Len(docs'.osc)].doc =
                  OSM_add(prims, IF joins THEN docs.osc[n].doc ELSE EmptyDoc,
                          last'.element)
            /\ Len(docs'.osc) = Cardinality(RunStarts(last'.calls))
            /\ \A s \in RunStarts(last'.calls) :
                  LET k == Cardinality({t \in RunStarts(last'.calls) : t <= s})
                  IN /\ docs'.osc[k].action = last'.calls[s][1]
                     /\ docs'.osc[k].doc =
                           OSM_added(prims, EmptyDoc,
                                     RunElements(last'.calls, s))]_vars

\* create, modify, create: three sections, the two create sections apart.
C21_Witness ==
    /\ Len(last.calls) = 3
    /\ <<last.calls[1][1], last.calls[2][1], last.calls[3][1]>>
          = <<"create", "modify", "create">>
    /\ Len(docs.osc) = 3
    /\ docs.osc[1].action = "create" /\ docs.osc[3].action = "create"

(***************************************************************************)
(* The attributes of an XML element: parse_attribs and unparse_attribs.    *)
(* A value is a record of its Python type t and its content: n of an int,  *)
(* b of a bool, s of a str.                                                *)
(***************************************************************************)

IntValue(n) == [t |-> "int", n |-> n, b |-> FALSE, s |-> ""]
BoolValue(b) == [t |-> "bool", n |-> 0, b |-> b, s |-> ""]
StrValue(s) == [t |-> "str", n |-> 0, b |-> FALSE, s |-> s]

Decimal == <<"1", "2", "3", "4", "5", "6", "7", "8", "9">>

\* int(value) of a decimal string.
py_int(s) == CHOOSE n \in DOMAIN Decimal : Decimal[n] = s

\* str(value): the decimal string of an integer, "True" or "False" of a
\* boolean, the string itself.
py_str(value) ==
    CASE value.t = "int" -> Decimal[value.n]
      [] value.t = "bool" -> IF value.b THEN "True" ELSE "False"
      [] OTHER -> value.s

\* str.lower() on the strings of the model.
lower(s) ==
    CASE s = "True" -> "true"
      [] s = "False" -> "false"
      [] OTHER -> s

\* XMLElement.parse_attribs on the attrib dictionary of the element.
parse_attribs(attrib) ==
    [key \in DOMAIN attrib |->
       IF key \in {"uid", "changeset", "version", "id", "ref"}
       THEN IntValue(py_int(attrib[key].s))
       ELSE IF key \in {"open", "visible"}
       THEN BoolValue(attrib[key].s = "true")
       ELSE attrib[key]]

\* XMLElement.unparse_attribs: isinstance(value, (int, float)) is tested
\* first and holds for a bool, which is an int in Python.
unparse_attribs(data, strip) ==
    [key \in DOMAIN data \ strip |->
       IF data[key].t \in {"int", "float", "bool"}
       THEN StrValue(py_str(data[key]))
       ELSE IF data[key].t = "bool"
       THEN StrValue(lower(py_str(data[key])))
       ELSE data[key]]

\* The attribute dictionaries: integers under id and version, booleans under
\* visible and open, a string under user; every key may be missing.
AttribValues(key) ==
    CASE key \in {"id", "version"} -> {IntValue(n) : n \in 1..MaxAttr}
      [] key \in {"visible", "open"} -> {BoolValue(b) : b \in BOOLEAN}
      [] OTHER -> {StrValue(s) : s \in {"alice", "true", "1"}}

AttribDicts ==
    UNION {{a \in [K -> UNION {AttribValues(k) : k \in K}] :
              \A k \in K : a[k] \in AttribValues(k)} :
           K \in SUBSET {"id", "version", "visible", "open", "user"}}

AttribInit ==
    /\ HeapEmpty
    /\ docs = NoDocs
    /\ api = NoAPI
    /\ srv = NoServer
    /\ last = NoCall

Unparse ==
    /\ last.op = "init"
    /\ \E data \in AttribDicts :
          last' = [op |-> "unparse_attribs", data |-> data,
                   ret |-> unparse_attribs(data, {})]
    /\ UNCHANGED <<heapvars, docs, api, srv>>

Parse ==
    /\ last.op = "unparse_attribs"
    /\ last' = [op |-> "parse_attribs", data |-> last.data,
                element |-> last.ret, ret |-> parse_attribs(last.ret)]
    /\ UNCHANGED <<heapvars, docs, api, srv>>

AttribNext == Unparse \/ Parse

SpecAttribs == AttribInit /\ [][AttribNext]_vars

\* C22: parse_attribs of the unparse_attribs of an attribute dictionary is
\* that dictionary: same keys, and under every key the value it had, the
\* booleans true and false included.
C22_AttribsRoundTrip ==
    last.op = "parse_attribs" =>
       /\ DOMAIN last.ret = DOMAIN last.data
       /\ \A key \in DOMAIN last.data : last.ret[key] = last.data[key]

(***************************************************************************)
(* The write operations of one kind: create_node ... delete_relation.      *)
(***************************************************************************)

\* create_element, update_element or delete_element, as op says.
generic_write(P, M, S, op, element, changeset, t) ==
    CASE op = "create" -> create_element(P, M, S, element, changeset, t)
      [] op = "update" -> update_element(P, M, S, element, changeset, t)
      [] OTHER -> delete_element(P, M, S, element, changeset, t)

\* BaseWriteAPI.<op>_<kind>: TypeError unless element is an instance of the
\* class of the kind, then the generic operation.  delete_relation tests the
\* name relation, which is not defined: NameError whatever the element is.
kind_write(P, M, S, op, kind, element, changeset, t) ==
    IF op = "delete" /\ kind = "Relation"
    THEN write_failed(P, M, Raise(S, "NameError"), None)
    ELSE IF P[element].cls # kind
    THEN write_failed(P, M, Raise(S, "TypeError"), None)
    ELSE generic_write(P, M, S, op, element, changeset, t)

\* A node, a way and a relation that the server knows.
KindInputs == << <<"Node", 1, 1, "a1", 0>>, <<"Way", 1, 1, "a1", 0>>,
                <<"Relation", 1, 1, "a1", 0>> >>

KindInit ==
    /\ prims = Constructed(KindInputs, Len(KindInputs)).prims
    /\ maps = Constructed(KindInputs, Len(KindInputs)).maps
    /\ counter = Constructed(KindInputs, Len(KindInputs)).counter
    /\ docs = NoDocs
    /\ \E enabled \in BOOLEAN :
         api = [changeset |-> NoChangeset, enabled |-> enabled, size |-> 1]
    /\ srv = NoServer
    /\ last = NoCall

\* The state after the call that yields r; g is what the generic operation
\* yields from the same state.
KindWritten(op, kind, element, changeset, r, g) ==
    /\ prims' = r.prims
    /\ maps' = r.maps
    /\ api' = r.S.api
    /\ srv' = r.S.srv
    /\ last' = [op |-> "kind_write", write |-> op, kind |-> kind,
                element |-> element, changeset |-> changeset,
                exc |-> r.exc, ret |-> r.ret, reqs |-> r.S.reqs,
                pre |-> [prims |-> prims, maps |-> maps, api |-> api, srv |-> srv],
                generic |-> g]
    /\ UNCHANGED <<counter, docs>>

KindWrite ==
    /\ last.op = "init"
    /\ \E op \in {"create", "update", "delete"}, kind \in Classes,
          element \in Objs(prims), changeset \in {NoArg, IntArg(1)} :
       \E t \in WriteOutcomes(changeset) :
         KindWritten(op, kind, element, changeset,
                     kind_write(prims, maps, Call, op, kind, element, changeset, t),
                     generic_write(prims, maps, Call, op, element, changeset, t))

KindNext == KindWrite

SpecKind == KindInit /\ [][KindNext]_vars

\* C23: a write operation of one kind raises TypeError, sends nothing and
\* changes nothing when the element is of another class; on an element of its
\* class it raises, returns, sends and leaves the state as the generic
\* operation does.
C23_KindWrites ==
    last.op = "kind_write" =>
       IF last.pre.prims[last.element].cls # last.kind
       THEN /\ last.exc = "TypeError"
            /\ last.reqs = <<>>
            /\ prims = last.pre.prims /\ maps = last.pre.maps
            /\ api = last.pre.api /\ srv = last.pre.srv
       ELSE /\ last.exc = last.generic.exc
            /\ last.ret = last.generic.ret
            /\ last.reqs = last.generic.S.reqs
            /\ prims = last.generic.prims /\ maps = last.generic.maps
            /\ api = last.generic.S.api /\ srv = last.generic.S.srv

(***************************************************************************)
(* The result of upload_diff for the acknowledgments of the server.        *)
(***************************************************************************)

\* The acknowledgments: of a node or a way, under a placeholder or a server
\* id, with or without the attributes new_id and new_version (None when the
\* attribute is missing, as for a deleted primitive).
Acks ==
    {Ack(cls, old_id, new_id, new_version) :
        cls \in {"Node", "Way"}, old_id \in {-1, 1},
        new_id \in {None, 42}, new_version \in {None, 1}}

\* The diffResult documents of up to MaxAcks acknowledgments.
AckResponses == UNION {[1..n -> Acks] : n \in 0..MaxAcks}

AckInit ==
    /\ prims = APIHeap.prims
    /\ maps = APIHeap.maps
    /\ counter = APIHeap.counter
    /\ docs = NoDocs
    /\ \E enabled \in BOOLEAN :
         api = [changeset |-> NoChangeset, enabled |-> enabled, size |-> 1]
    /\ srv = NoServer
    /\ last = NoCall

Uploaded(osc, changeset, t, r) ==
    /\ api' = r.S.api
    /\ srv' = r.S.srv
    /\ last' = [op |-> "upload_diff", osc |-> osc, changeset |-> changeset,
                exc |-> r.exc, ret |-> r.ret, csid |-> r.csid,
                response |-> t.response, reqs |-> r.S.reqs]
    /\ UNCHANGED <<heapvars, docs>>

UploadAcks ==
    /\ last.op = "init"
    /\ \E osc \in APIOSCs, changeset \in {NoArg, IntArg(1)},
          response \in AckResponses :
         Uploaded(osc, changeset, Outcome("none", str(None), response),
                  upload_diff(Call, osc, changeset,
                              Outcome("none", str(None), response)))

AckNext == UploadAcks

SpecAcks == AckInit /\ [][AckNext]_vars

OverpassServer == "www.overpass-api.de"
Servers == {"api.openstreetmap.org", OverpassServer}

\* The responses of a server: the status, the Location header ("" when the
\* response has none) and the Content-Type header.
HTTPResponses ==
    {[status |-> 200, location |-> "", content_type |-> ct] :
        ct \in {"application/osm3s+xml", "text/html"}}
    \cup {[status |-> 301, location |-> l, content_type |-> "text/html"] :
            l \in Servers \cup {""}}
    \cup {[status |-> s, location |-> "", content_type |-> "text/html"] :
            s \in {204, 404, 500}}

\* The call after a response that ends it with an APIError or with the body.
request_raised(c, response) ==
    [c EXCEPT !.pc = "raised", !.exc = "APIError",
              !.responses = Append(@, response)]
request_returned(c, response) ==
    [c EXCEPT !.pc = "returned", !.ret = "body",
              !.responses = Append(@, response)]

\* The recursive call request(server, path, ..., retry=retry).
request_again(c, response, server, retry) ==
    [c EXCEPT !.server = server, !.retry = retry,
              !.responses = Append(@, response)]

\* A redirect that starts again with the retry argument of the outermost call.
request_fresh_budget(c, response) ==
    IF response.status = 200
    THEN IF c.server = OverpassServer
            /\ response.content_type # "application/osm3s+xml"
         THEN request_raised(c, response)
         ELSE request_returned(c, response)
    ELSE IF response.status \in {301, 302, 303, 307}
    THEN IF response.location = ""
         THEN request_raised(c, response)
         ELSE request_again(c, response, response.location, c.retry0)
    ELSE IF 400 <= response.status /\ response.status < 500
    THEN request_raised(c, response)
    ELSE IF c.retry <= 0
    THEN request_raised(c, response)
    ELSE request_again(c, response, c.server, c.retry - 1)

\* HTTPClient.request after connection.getresponse().
request(c, response) ==
    IF response.status = 200
    THEN IF c.server = OverpassServer
            /\ response.content_type # "application/osm3s+xml"
         THEN request_raised(c, response)
         ELSE request_returned(c, response)
    ELSE IF response.status \in {301, 302, 303, 307}
    THEN IF response.location = ""
         THEN request_raised(c, response)
         ELSE request_again(c, response, response.location, c.retry)
    ELSE IF 400 <= response.status /\ response.status < 500
    THEN request_raised(c, response)
    ELSE IF c.retry <= 0
    THEN request_raised(c, response)
    ELSE request_again(c, response, c.server, c.retry - 1)

HTTPInit ==
    /\ HeapEmpty
    /\ docs = NoDocs
    /\ api = NoAPI
    /\ srv = NoServer
    /\ last = NoCall

\* The call request(server, path, retry=retry) is made.
Request ==
    /\ last.op = "init"
    /\ \E server \in Servers, retry \in 0..MaxRetry :
          last' = [op |-> "request", pc |-> "sent", server |-> server,
                   server0 |-> server, retry |-> retry, retry0 |-> retry,
                   responses |-> <<>>, exc |-> "", ret |-> ""]
    /\ UNCHANGED <<heapvars, docs, api, srv>>

\* The server answers the request in flight.
Respond ==
    /\ last.op = "request" /\ last.pc = "sent"
    /\ \E response \in HTTPResponses :
          /\ response.status = 301 =>
                Cardinality({i \in DOMAIN last.responses :
                               last.responses[i].status = 301}) < MaxRedirects
          /\ last' = request(last, response)
    /\ UNCHANGED <<heapvars, docs, api, srv>>

HTTPNext == Request \/ Respond

SpecHTTP == HTTPInit /\ [][HTTPNext]_vars

\* The responses of the call with a status in S.
Received(S) == {i \in DOMAIN last.responses : last.responses[i].status \in S}

ServerErrors == 500..599
Redirects == {301, 302, 303, 307}
ClientErrors == 400..499

\* The response i was followed by another request of the call.
Reattempted(i) == i < Len(last.responses) \/ last.pc = "sent"

\* The responses that the code takes as errors to retry: every status that is
\* not 200, not a redirect and not a client error.
Retried ==
    {i \in DOMAIN last.responses :
        last.responses[i].status \notin {200} \cup Redirects \cup ClientErrors}

\* C25 as stated: a request follows a response only when that response is a
\* server error (5xx) or a followed redirect; the (retry+1)-th 5xx response of
\* the call raises APIError and an earlier one is re-attempted; a 4xx response
\* raises APIError at once; a 200 response ends the call with the body.
C25_RetriesOnlyServerErrors ==
    last.op = "request" =>
       /\ \A i \in DOMAIN last.responses :
             Reattempted(i) =>
                last.responses[i].status \in ServerErrors \cup Redirects
       /\ \A i \in Received(ServerErrors) :
             IF Cardinality({j \in Received(ServerErrors) : j <= i}) = last.retry0 + 1
             THEN ~Reattempted(i) /\ last.pc = "raised" /\ last.exc = "APIError"
             ELSE Reattempted(i)
       /\ \A i \in Received(ClientErrors) :
             ~Reattempted(i) /\ last.pc = "raised" /\ last.exc = "APIError"
       /\ \A i \in Received({200}) :
             ~Reattempted(i) /\ last.pc = "returned" /\ last.ret = "body"

\* C25 amended: a request follows a response only when that response is a
\* followed redirect or has a status that is neither 200 nor 4xx (5xx
\* included); the (retry+1)-th response of the latter kind raises APIError,
\* an earlier one is re-attempted with the budget one lower, and a redirect
\* leaves the budget as it is; a 4xx response and a redirect without Location
\* raise APIError at once; a 200 response ends the call with the body, except
\* from the Overpass server with another Content-Type than
\* application/osm3s+xml, which raises APIError at once.
C25_RetryBudget ==
    last.op = "request" =>
       /\ \A i \in DOMAIN last.responses :
             Reattempted(i) => i \in Retried \cup Received(Redirects)
       /\ \A i \in Retried :
             IF Cardinality({j \in Retried : j <= i}) = last.retry0 + 1
             THEN ~Reattempted(i) /\ last.pc = "raised" /\ last.exc = "APIError"
             ELSE Reattempted(i)
       /\ last.retry =
             last.retry0 - Cardinality({i \in Retried : Reattempted(i)})
       /\ \A i \in Received(ClientErrors) :
             ~Reattempted(i) /\ last.pc = "raised" /\ last.exc = "APIError"
       /\ \A i \in Received(Redirects) :
             IF last.responses[i].location = ""
             THEN ~Reattempted(i) /\ last.pc = "raised" /\ last.exc = "APIError"
             ELSE Reattempted(i)
       /\ \A i \in Received({200}) :
             /\ ~Reattempted(i)
             /\ IF /\ last.server = OverpassServer
                   /\ last.responses[i].content_type # "application/osm3s+xml"
                THEN last.pc = "raised" /\ last.exc = "APIError"
                ELSE last.pc = "returned" /\ last.ret = "body"

\* A call with retry = 1 that is answered 500, redirected, and answered 500
\* again: the second 500 raises APIError.
C25_Witness ==
    /\ last.op = "request"
    /\ last.retry0 = 1
    /\ Len(last.responses) = 3
    /\ <<last.responses[1].status, last.responses[2].status,
         last.responses[3].status>> = <<500, 301, 500>>
    /\ last.pc = "raised"

\* C26: every entry of the history map of every primitive is keyed by the
\* version of the instance it holds: history[v].version = v.
C26_HistoryKeyedByVersion ==
    \A o \in Objs(prims) :
       \A v \in DOMAIN maps[prims[o].history] :
          prims[maps[prims[o].history][v]].version = v

(***************************************************************************)
(* The auto changeset over a sequence of calls of the public API: writes,  *)
(* upload_diff, create_changeset and close_changeset.  last.n counts the   *)
(* calls, last.auto collects the ids of the changesets that _changeset_id  *)
(* has opened, last.pre is the API object before the call.                 *)
(***************************************************************************)

SessionHeap == Constructed(<< <<"Node", 1, 1, "a1", 0>> >>, 1)

SessionInit ==
    /\ prims = SessionHeap.prims
    /\ maps = SessionHeap.maps
    /\ counter = SessionHeap.counter
    /\ docs = NoDocs
    /\ \E size \in 1..2 : api = [NoAPI EXCEPT !.size = size]
    /\ srv = NoServer
    /\ last = [op |-> "init", n |-> 0, auto |-> {}]

\* The changeset arguments of a call: none (as long as the server has ids to
\* hand out), or the id of a changeset that the server has handed out.
SessionArgs ==
    (IF srv.next < MaxOpened THEN {NoArg} ELSE {})
    \cup {IntArg(k) : k \in 1..(srv.next - 1)}

\* The call has sent its own request, so that its changeset id was resolved.
MainSent(reqs) ==
    \E i \in DOMAIN reqs :
       reqs[i].method = "POST" \/ reqs[i].path[1] # "changeset"

\* The requests PUT changeset/create and PUT changeset/<id>/close.
IsCreate(req) == req.path[1] = "changeset" /\ Len(req.path) = 2
IsClose(req, id) ==
    /\ req.path[1] = "changeset" /\ Len(req.path) = 3
    /\ req.path[3] = "close" /\ int(req.path[2]) = id

\* The auto changeset that self._changeset holds when the call c reaches the
\* _auto_changeset_clear after its own request: the changeset that the
\* resolution has counted, or with an explicit changeset the one held before.
SessionAtClear(c) ==
    IF c.changeset # NoArg
    THEN c.pre.changeset
    ELSE [id |-> int(c.csid),
          counter |-> IF \E i \in DOMAIN c.reqs : IsCreate(c.reqs[i])
                      THEN 1 ELSE c.pre.changeset.counter + 1]

\* The auto changeset that the call c has tried to close last.
SessionAtClose(c) ==
    IF MainSent(c.reqs) THEN SessionAtClear(c) ELSE c.pre.changeset

\* The call c has ended with the failure of the close request of
\* _auto_changeset_clear.
FailedAutoClose(c) ==
    /\ c.op \in {"update_element", "upload_diff"}
    /\ c.exc = "APIError"
    /\ SessionAtClose(c) # NoChangeset
    /\ IsClose(c.reqs[Len(c.reqs)], SessionAtClose(c).id)

\* The state after a call that has yielded the API object and server S and
\* the exception exc, and has resolved the changeset id csid.
Called(op, changeset, S, exc, csid) ==
    /\ api' = S.api
    /\ srv' = S.srv
    /\ last' = [op |-> op, n |-> last.n + 1, changeset |-> changeset,
                exc |-> exc, csid |-> csid, reqs |-> S.reqs, pre |-> api,
                closed |-> srv.closed,
                after_failed_close |-> last.op # "init" /\ FailedAutoClose(last),
                auto |-> IF op \in {"update_element", "upload_diff"}
                            /\ S.srv.next > srv.next
                         THEN last.auto \cup {srv.next} ELSE last.auto]

SessionWritten(changeset, r) ==
    /\ prims' = r.prims
    /\ maps' = r.maps
    /\ Called("update_element", changeset, r.S, r.exc, r.csid)
    /\ UNCHANGED <<counter, docs>>

SessionDone(op, changeset, r, csid) ==
    /\ Called(op, changeset, r.S, r.exc, csid)
    /\ UNCHANGED <<heapvars, docs>>

SessionUpdate ==
    /\ last.n < MaxCalls
    /\ \E changeset \in SessionArgs : \E t \in WriteOutcomes(changeset) :
          SessionWritten(changeset,
                         update_element(prims, maps, Call, 1, changeset, t))

SessionUpload ==
    /\ last.n < MaxCalls
    /\ \E changeset \in SessionArgs : \E f \in Failures(changeset) :
          SessionDone("upload_diff", changeset,
                      upload_diff(Call, <<>>, changeset,
                                  Outcome(f, str(None), <<>>)),
                      upload_diff(Call, <<>>, changeset,
                                  Outcome(f, str(None), <<>>)).csid)

SessionCreate ==
    /\ last.n < MaxCalls /\ srv.next < MaxOpened
    /\ \E ok \in BOOLEAN :
          SessionDone("create_changeset", NoArg,
                      create_changeset(Call, [create |-> ok, newid |-> srv.next]),
                      None)

SessionClose ==
    /\ last.n < MaxCalls
    /\ \E k \in 1..(srv.next - 1), ok \in BOOLEAN :
       \E changeset \in {IntArg(k), ChangesetArg(k)} :
          SessionDone("close_changeset", changeset,
                      close_changeset(Call, changeset,
                                      [close |-> ok, create |-> FALSE,
                                       newid |-> None]),
                      None)

SessionNext == SessionUpdate \/ SessionUpload \/ SessionCreate \/ SessionClose

SpecSession == SessionInit /\ [][SessionNext]_vars

\* C27: a call without explicit changeset never resolves the id of a
\* changeset whose close request has succeeded before the call, and at most
\* one of the changesets that _changeset_id has opened is not closed.
C27_NoUseAfterClose ==
    /\ (/\ last.op \in {"update_element", "upload_diff"}
        /\ last.changeset = NoArg
        /\ MainSent(last.reqs)) => int(last.csid) \notin last.closed
    /\ Cardinality(last.auto \ srv.closed) <= 1

C29_UploadClosesItsChangeset ==
    (last.op = "upload_diff" /\ last.exc = "") =>
       /\ \E i \in DOMAIN last.reqs : IsClose(last.reqs[i], int(last.csid))
       /\ api.changeset = NoChangeset

(***************************************************************************)
(* The payload of a write request: API._format_payload on the XML element  *)
(* of a primitive.  A child element is <<tag, n>>: the tag element of the  *)
(* key n, the n-th nd or the n-th member.                                  *)
(***************************************************************************)

\* OSMPrimitive.to_xml, Way.to_xml, Relation.to_xml: the tag elements in the
\* order of the sorted keys, then the nd or member elements in their order.
to_xml(cls, keys, n) ==
    [tag |-> cls, changeset |-> None,
     children |-> [i \in DOMAIN Ascending(keys) |-> <<"tag", Ascending(keys)[i]>>]
                  \o [i \in 1..n |->
                        <<IF cls = "Way" THEN "nd" ELSE "member", i>>]]

\* element.remove(child): the element without the first child that is child.
removed(children, child) ==
    LET i == CHOOSE j \in DOMAIN children :
                children[j] = child /\ \A k \in 1..(j - 1) : children[k] # child
    IN SubSeq(children, 1, i - 1) \o SubSeq(children, i + 1, Len(children))

RECURSIVE remove_children(_, _)
\* for child in element: element.remove(child).  The iterator reads the
\* child at position i of the list as it is now and goes on to i + 1.
remove_children(children, i) ==
    IF i > Len(children)
    THEN children
    ELSE remove_children(removed(children, children[i]), i + 1)

\* API._format_payload
format_payload(element, csid, main_tag_only) ==
    [tag |-> element.tag, changeset |-> csid,
     children |-> IF main_tag_only
                  THEN remove_children(element.children, 1)
                  ELSE element.children]

PayloadInit ==
    /\ HeapEmpty
    /\ docs = NoDocs
    /\ api = NoAPI
    /\ srv = NoServer
    /\ last = NoCall

\* _format_payload on a primitive with the tag keys and n nds or members (a
\* node has neither).
FormatPayload ==
    /\ last.op = "init"
    /\ \E cls \in Classes, keys \in SUBSET (1..MaxChildren), n \in 0..MaxChildren,
          csid \in 1..2, main_tag_only \in BOOLEAN :
          /\ cls = "Node" => n = 0
          /\ last' = [op |-> "_format_payload", element |-> to_xml(cls, keys, n),
                      main_tag_only |-> main_tag_only,
                      ret |-> format_payload(to_xml(cls, keys, n),
                                             str(csid), main_tag_only)]
    /\ UNCHANGED <<heapvars, docs, api, srv>>

PayloadNext == FormatPayload

SpecPayload == PayloadInit /\ [][PayloadNext]_vars

\* C30: the payload that _format_payload builds with main_tag_only (the
\* payload of delete_element) is the main element without any child element,
\* whatever the number of its tag, nd and member children.
C30_MainTagOnly ==
    (last.op = "_format_payload" /\ last.main_tag_only) =>
        /\ last.ret.tag = last.element.tag
        /\ last.ret.children = <<>>

====
